---- MODULE Spec2Model ----
(***************************************************************************)
(* Model of the SmartHandController catalog manager (CatMgr, Catalog.cpp). *)
(*                                                                         *)
(* Numbers.  The code computes with float/double; every quantity the       *)
(* model compares is kept as a scaled integer, exact for the values used:  *)
(*   magnitudes in 1/100 mag   (99.9 -> 9990, limit 10.0 -> 1000)          *)
(*   separations in 1/10 "     (999.9 -> 9999, limit 0.5 -> 5)             *)
(*   periods in 1/100 day      (-1 -> -100, limit 0.5 -> 50)               *)
(*   declinations and altitudes in whole degrees (compact layouts store    *)
(*   the declination in 1/364 degree, and dec() divides).                  *)
(* Strings that the code scans character by character (the name and        *)
(* sub-id tables) are sequences of one-character strings; "" is << >>.     *)
(*                                                                         *)
(* alt() and DistFromEqu() are spherical trigonometry on ra()/dec(), the   *)
(* latitude and the sidereal time.  The model has one valid observer, and  *)
(* tabulates their results for it in the record fields Alt and Dist.       *)
(*                                                                         *)
(* Reads outside a record array.  The cursor is a long, and the code can   *)
(* leave it outside the array it indexes; what such a read returns is      *)
(* whatever the memory there holds.  That memory does not change while the *)
(* program runs, so it is part of the state (junk), chosen freely in Init. *)
(***************************************************************************)
EXTENDS Integers, Sequences, FiniteSets, TLC

(***************************************************************************)
(* Bounds of the model.                                                    *)
(***************************************************************************)
\* setIndex() is called with arguments from -MaxOver to (last index + 1 + MaxOver)
MaxOver == 2
\* select() is called with numbers from -1 to (number of registry entries + MaxSelOver)
MaxSelOver == 1
\* at most this many filter criteria are enabled at once in SpecTypes
MaxEnabled == 2
\* filterAdd(fm, param) parameters considered: 0 .. MaxParam
MaxParam == 10
\* the record count of the catalog whose name / sub-id flags SpecNames varies
NameRecs == 3
\* SpecLost steps a cursor outside the array while it is at most this far
\* from LONG_MIN or LONG_MAX
MaxDrift == 1

(***************************************************************************)
(* Catalog types (CatalogTypes.h, used by name in Catalog.cpp).            *)
(***************************************************************************)
CatTypes ==
  {"CAT_GEN_STAR", "CAT_GEN_STAR_VCOMP", "CAT_DBL_STAR", "CAT_DBL_STAR_COMP",
   "CAT_VAR_STAR", "CAT_DSO", "CAT_DSO_COMP", "CAT_DSO_VCOMP"}

\* a NULL pointer (typed views, and the sentinel entry's tables).  A pointer
\* to a record array is the array's name, as a tuple: << "Cat_Stars" >>; a
\* pointer to a string table is the table's name.
NULL == << >>

(***************************************************************************)
(* Records.  One TLA+ record shape carries the raw fields of all eight     *)
(* layouts; a layout that lacks a field never reads it.  Mag/Mag2 are the  *)
(* raw stored values (1/100 mag in the full layouts, the 0..255 byte of    *)
(* the compact ones), Sep the raw 1/10 ", Period the raw 0..32767 code.    *)
(* DE is in degrees in the full layouts and in the compact layouts' raw    *)
(* unit (1/364 degree) otherwise; RA likewise (hours, or 1/2731 hour).     *)
(***************************************************************************)
Rec(de, mag, mag2, cons, otype, hn, hs, bf, pa, sep, per, id, al, di) ==
  [RA |-> 0, DE |-> de, Mag |-> mag, Mag2 |-> mag2, Cons |-> cons, Obj_type |-> otype,
   Has_name |-> hn, Has_subId |-> hs, BayerFlam |-> bf, PA |-> pa, Sep |-> sep,
   Period |-> per, Obj_id |-> id, Alt |-> al, Dist |-> di]

\* what a read outside a record array can yield: a record that passes the
\* criteria the model's filters enable, and one that fails them
JunkPass == Rec(10, 0, 0, 2, 5, 1, 1, 1, 10, 20, 10, 1, 60, 0)
JunkFail == Rec(32400, 255, 255, 9, 9, 0, 0, 24, 0, 9999, 32767, 2, -60, 170)
JunkRecs == { JunkPass, JunkFail }

\* the string tables, character by character
Chars(name) ==
  CASE name = "Names_AB"   -> << "A", ";", "B" >>
    [] name = "Names_Vega" -> << "V", "e", "g", "a", ";", "P", "o", "l", "a", "r", "i", "s" >>
    [] name = "Names_Gen"  -> << "A", "l", ";", "B", "e", ";", "C", ";", "D", "u", ";", "E" >>
    [] name = "SubIds"     -> << "a", ";", ";", "c", ";", "d", "d", ";", "e", ";" >>
    [] OTHER               -> << >>

\* three records of a compact star catalog: mag 1.0, 10.0 and unknown (255);
\* declinations 20, -30 and 88 degrees
StarRecs ==
  << Rec(  7280,  35, 0, 1, 0, 1, 0,  0, 0, 0, 0, 1, 40,  3),
     Rec(-10920, 125, 0, 2, 0, 0, 1, 24, 0, 0, 0, 2, -5, 60),
     Rec( 32032, 255, 0, 1, 0, 1, 1, 30, 0, 0, 0, 3, 12, 80) >>

\* three double stars (compact): 0.3", 4.0", 30.0"; mag 7.0, 9.5, 11.5
DblRecs ==
  << Rec(  3640,  95,  105, 1, 0, 0, 0,  1, 120,   3, 0, 11,  50,  4),
     Rec( 16380, 120,  125, 2, 0, 1, 0, 24,  45,  40, 0, 12,   8, 20),
     Rec( -3640, 140,  255, 2, 0, 0, 1,  2, 300, 300, 0, 13, -20, 90) >>

\* two deep-sky objects (compact): types 5 and 9; mag 3.5 and 10.3
DsoRecs ==
  << Rec( 14924,  60, 0, 1, 5, 1, 0, 0, 0, 0, 0, 31, 70,  2),
     Rec(-31304, 128, 0, 2, 9, 0, 1, 0, 0, 0, 0, 45,  3, 30) >>

\* two variable stars (full layout): periods 0.40 d and 25.0 d
VarRecs ==
  << Rec( 15,  650,  900, 1, 0, 1, 1,  3, 0, 0,   40, 51, 30, 12),
     Rec( 60, 1150, 1400, 2, 0, 0, 0, 24, 0, 0, 1150, 52, 15, 14) >>

\* full-precision layouts (Mag in 1/100 mag, DE in degrees)
StarRecsFull ==
  << Rec( 20,  100, 0, 1, 0, 1, 0,  0, 0, 0, 0, 1, 40,  3),
     Rec(-30, 1050, 0, 2, 0, 0, 1, 24, 0, 0, 0, 2, -5, 60) >>
DblRecsFull ==
  << Rec( 10,  700,  800, 1, 0, 0, 0,  1, 120,   3, 0, 11, 50,  4),
     Rec( 45, 1100, 1250, 2, 0, 1, 0, 24,  45, 300, 0, 12,  8, 20) >>
DsoRecsFull ==
  << Rec( 41,  350, 0, 1, 5, 1, 0, 0, 0, 0, 0, 31, 70,  2),
     Rec(-86, 1030, 0, 2, 9, 0, 1, 0, 0, 0, 0, 45,  3, 30) >>

\* the catalog of the name-lookup example: six stars, records 2 and 5 named,
\* records 0, 1 and 3 with a sub-id
VegaRecs ==
  << Rec( 10, 100, 0, 1, 0, 0, 1,  1, 0, 0, 0, 1, 40, 3),
     Rec( 20, 200, 0, 1, 0, 0, 1,  2, 0, 0, 0, 2, 40, 3),
     Rec( 38,   3, 0, 2, 0, 1, 0,  0, 0, 0, 0, 3, 40, 3),
     Rec( 40, 300, 0, 2, 0, 0, 1, 24, 0, 0, 0, 4, 40, 3),
     Rec( 50, 400, 0, 3, 0, 0, 0, 24, 0, 0, 0, 5, 40, 3),
     Rec( 89, 198, 0, 3, 0, 1, 0,  0, 0, 0, 0, 6, 40, 3) >>

\* a compact star catalog whose record i has Has_name = hn[i], Has_subId = hs[i]
GenRecs(hn, hs) ==
  [ i \in 1 .. Len(hn) |->
      Rec(3640 * i, 30 + 10 * i, 0, 1, 0, hn[i], hs[i], i, 0, 0, 0, i, 40, 3) ]

\* the record arrays, by name
Data(p) ==
  CASE p = << "Cat_Stars" >>     -> StarRecs
    [] p = << "Cat_Vega" >>      -> VegaRecs
    [] Len(p) = 3                -> GenRecs(p[2], p[3])
    [] p = << "Cat_STF" >>       -> DblRecs
    [] p = << "Cat_Messier" >>   -> DsoRecs
    [] p = << "Cat_GCVS" >>      -> VarRecs
    [] p = << "Cat_Bright" >>    -> StarRecsFull
    [] p = << "Cat_STT" >>       -> DblRecsFull
    [] p = << "Cat_NGC" >>       -> DsoRecsFull
    [] p = << "Cat_Collinder" >> -> DsoRecs
    [] OTHER                     -> << >>

(***************************************************************************)
(* catalog_t entries: Title, Prefix, NumObjects, Objects, ObjectNames,     *)
(* ObjectSubIds, CatalogType, Epoch, Index.                                *)
(***************************************************************************)
Entry(title, prefix, objs, names, subs, type, epoch) ==
  [Title |-> title, Prefix |-> prefix, NumObjects |-> Len(Data(objs)), Objects |-> objs,
   ObjectNames |-> names, ObjectSubIds |-> subs, CatalogType |-> type,
   Epoch |-> epoch, Index |-> 0]

Sentinel ==
  [Title |-> "", Prefix |-> "", NumObjects |-> 0, Objects |-> NULL,
   ObjectNames |-> "NULL", ObjectSubIds |-> "NULL", CatalogType |-> "CAT_NONE",
   Epoch |-> 0, Index |-> 0]

\* 0-based array from a sequence
Arr(seq) == [i \in 0..(Len(seq) - 1) |-> seq[i + 1]]

\* the registry of the navigation specification
RegistryNav ==
  Arr(<< Entry("Stars",      "Star ", << "Cat_Stars" >>,   "Names_AB", "SubIds", "CAT_GEN_STAR_VCOMP", 2000),
         Entry("Slct STF**", "STF",   << "Cat_STF" >>,     "Names_AB", "SubIds", "CAT_DBL_STAR_COMP",  2000),
         Sentinel >>)

\* a registry with one catalog of every type
RegistryTypes ==
  Arr(<< Entry("Stars",      "Star ", << "Cat_Stars" >>,     "Names_AB", "SubIds", "CAT_GEN_STAR_VCOMP", 2000),
         Entry("Messier",    "M",     << "Cat_Messier" >>,   "Names_AB", "SubIds", "CAT_DSO_COMP",       2000),
         Entry("Slct STF**", "STF",   << "Cat_STF" >>,       "Names_AB", "SubIds", "CAT_DBL_STAR_COMP",  2000),
         Entry("GCVS",       "V",     << "Cat_GCVS" >>,      "Names_AB", "SubIds", "CAT_VAR_STAR",       2000),
         Entry("Bright",     "HR",    << "Cat_Bright" >>,    "Names_AB", "SubIds", "CAT_GEN_STAR",       2000),
         Entry("STT",        "STT",   << "Cat_STT" >>,       "Names_AB", "SubIds", "CAT_DBL_STAR",       2000),
         Entry("NGC",        "N",     << "Cat_NGC" >>,       "Names_AB", "SubIds", "CAT_DSO",            2000),
         Entry("Collinder",  "Cr",    << "Cat_Collinder" >>, "Names_AB", "SubIds", "CAT_DSO_VCOMP",      2000),
         Sentinel >>)

\* the registries of the name-lookup specification: the example catalog, and
\* a catalog with name flags hn and sub-id flags hs
RegistryNames(hn, hs) ==
  Arr(<< Entry("Example", "E", << "Cat_Vega" >>, "Names_Vega", "SubIds", "CAT_GEN_STAR", 2000),
         Entry("Stars", "Star ", << "Cat_Gen", hn, hs >>, "Names_Gen", "SubIds",
               "CAT_GEN_STAR_VCOMP", 2000),
         Sentinel >>)

\* registries for the catalog count: one with an empty catalog before a
\* non-empty one, and one with nothing but the sentinel
RegistryGap ==
  Arr(<< Entry("Stars",   "Star ", << "Cat_Stars" >>,   "Names_AB", "SubIds", "CAT_GEN_STAR_VCOMP", 2000),
         Entry("Empty",   "E",     << "Cat_Empty" >>,   "Names_AB", "SubIds", "CAT_DSO_COMP",       2000),
         Entry("Messier", "M",     << "Cat_Messier" >>, "Names_AB", "SubIds", "CAT_DSO_COMP",       2000),
         Sentinel >>)

RegistryEmpty == Arr(<< Sentinel >>)

(***************************************************************************)
(* State.                                                                  *)
(***************************************************************************)
VARIABLES
  catalog,               \* catalog_t catalog[] (the registry; only Index changes)
  _selected,             \* CatMgr::_selected
  _genStarCatalog, _genStarVCompCatalog, _dblStarCatalog, _dblStarCompCatalog,
  _varStarCatalog, _dsoCatalog, _dsoCompCatalog, _dsoVCompCatalog,
  _lat, _lstT0,          \* observer state
  _cosLat, _sinLat,      \* cos and sin of the last latitude below 9999
  RA, Dec, Alt, Azm,     \* the caller's coordinates (see Coordinate transforms)
  _fm,                   \* the filter bitmask, as the set of its bits
  _fm_con, _fm_mag_limit, _fm_nearby_dist, _fm_obj_type,
  _fm_dbl_min, _fm_dbl_max, _fm_var_max,
  junk,                  \* the memory outside the record arrays: the record
                         \* read at an even (junk[0]) and at an odd (junk[1])
                         \* index that is not an index of the array
  last                   \* the last call made: [op, arg, ret, moves, wild]

ptrs == << _genStarCatalog, _genStarVCompCatalog, _dblStarCatalog, _dblStarCompCatalog,
           _varStarCatalog, _dsoCatalog, _dsoCompCatalog, _dsoVCompCatalog >>
observer == << _lat, _lstT0, _cosLat, _sinLat >>
place == << RA, Dec, Alt, Azm >>
filter == << _fm, _fm_con, _fm_mag_limit, _fm_nearby_dist, _fm_obj_type,
             _fm_dbl_min, _fm_dbl_max, _fm_var_max >>
vars == << catalog, _selected, ptrs, observer, filter, junk, place, last >>

(***************************************************************************)
(* Record decoders.  t is the active catalog type, r the raw record.       *)
(***************************************************************************)
FullTypes == {"CAT_GEN_STAR", "CAT_DBL_STAR", "CAT_VAR_STAR", "CAT_DSO"}
StarTypes == {"CAT_GEN_STAR", "CAT_GEN_STAR_VCOMP", "CAT_DBL_STAR",
              "CAT_DBL_STAR_COMP", "CAT_VAR_STAR"}
DblTypes  == {"CAT_DBL_STAR", "CAT_DBL_STAR_COMP"}
DsoTypes  == {"CAT_DSO", "CAT_DSO_COMP", "CAT_DSO_VCOMP"}

\* the compact magnitude byte: 255 is "unknown", else (m/10.0)-2.5
CompMag(m) == IF m = 255 THEN 9990 ELSE m * 10 - 250

rahOf(t, r) ==
  IF t \in FullTypes THEN r.RA
  ELSE IF t \in CatTypes THEN r.RA \div 2731 ELSE 0

decOf(t, r) ==
  IF t \in FullTypes THEN r.DE
  ELSE IF t \in CatTypes THEN r.DE \div 364 ELSE 0

magnitudeOf(t, r) ==
  IF t \in FullTypes THEN r.Mag
  ELSE IF t \in CatTypes THEN CompMag(r.Mag) ELSE 9990

magnitude2Of(t, r) ==
  IF t = "CAT_DBL_STAR" THEN r.Mag2
  ELSE IF t = "CAT_DBL_STAR_COMP" THEN CompMag(r.Mag2)
  ELSE IF t = "CAT_VAR_STAR" THEN r.Mag2 ELSE 9990

constellationOf(t, r) == IF t \in CatTypes THEN r.Cons ELSE 0

\* objectType() returns byte: its "return -1" is 255
ByteOf(n) == n % 256

objectTypeOf(t, r) ==
  IF t \in {"CAT_GEN_STAR", "CAT_GEN_STAR_VCOMP", "CAT_DBL_STAR", "CAT_DBL_STAR_COMP"}
    THEN ByteOf(2)
  ELSE IF t \in DsoTypes THEN ByteOf(r.Obj_type) ELSE ByteOf(-1)

periodOf(t, r) ==
  IF t = "CAT_VAR_STAR"
    THEN LET p == r.Period IN
         IF p > 0 /\ p <= 999 THEN p
         ELSE IF p > 999 /\ p <= 32766 THEN (p - 900) * 10 ELSE -100
    ELSE -100

positionAngleOf(t, r) == IF t \in DblTypes THEN r.PA ELSE -1

separationOf(t, r) == IF t \in DblTypes THEN r.Sep ELSE 9999

bayerFlamOf(t, r) ==
  IF t \in StarTypes THEN (IF r.BayerFlam = 24 THEN -1 ELSE r.BayerFlam) ELSE -1

\* alt(): EquToHor(ra(),dec()), tabulated for the model's observer
altOf(t, r) == r.Alt

\* DistFromEqu(_lastTeleRA,_lastTeleDec), tabulated for the model's pointing
DistFromEquOf(t, r) == r.Dist

(***************************************************************************)
(* Registry and selection.                                                 *)
(***************************************************************************)
\* MaxCatalogs (Catalog.h); the registries of the model are shorter
MaxCatalogs == 64

NumEntries == Cardinality(DOMAIN catalog)

numCatalogs ==
  LET scan == { i \in 0..(NumEntries - 1) : i < MaxCatalogs /\ catalog[i].NumObjects = 0 }
  IN  IF scan # {} THEN CHOOSE i \in scan : \A j \in scan : i <= j ELSE 32

\* catalogType(): catalog[_selected].CatalogType.  Only used where _selected >= 0;
\* the unguarded callers with _selected = -1 are modelled where they occur.
catalogType == catalog[_selected].CatalogType

isStarCatalog    == catalogType \in StarTypes
isDblStarCatalog == catalogType \in DblTypes
isVarStarCatalog == catalogType = "CAT_VAR_STAR"
isDsoCatalog     == catalogType \in DsoTypes

getIndex    == catalog[_selected].Index
getMaxIndex == catalog[_selected].NumObjects - 1

\* the typed view the accessors read for catalog type t
View(t) ==
  CASE t = "CAT_GEN_STAR"       -> _genStarCatalog
    [] t = "CAT_GEN_STAR_VCOMP" -> _genStarVCompCatalog
    [] t = "CAT_DBL_STAR"       -> _dblStarCatalog
    [] t = "CAT_DBL_STAR_COMP"  -> _dblStarCompCatalog
    [] t = "CAT_VAR_STAR"       -> _varStarCatalog
    [] t = "CAT_DSO"            -> _dsoCatalog
    [] t = "CAT_DSO_COMP"       -> _dsoCompCatalog
    [] t = "CAT_DSO_VCOMP"      -> _dsoVCompCatalog
    [] OTHER                    -> NULL

\* the long type of the cursor: 32 bits on the targets.  "Index++" at
\* LONG_MAX and "Index--" at LONG_MIN overflow; two's-complement wrap-around
\* is what the targets' arithmetic produces
LONG_MAX == 2147483647
LONG_MIN == (0 - LONG_MAX) - 1
IncLong(x) == IF x = LONG_MAX THEN LONG_MIN ELSE x + 1
DecLong(x) == IF x = LONG_MIN THEN LONG_MAX ELSE x - 1

\* element idx of the active typed view: the record, or what the memory holds
\* when idx is outside the array
RecAt(idx) ==
  LET a == Data(View(catalogType)) IN
  IF idx >= 0 /\ idx < Len(a) THEN a[idx + 1] ELSE junk[idx % 2]

\* the record under the cursor of the active catalog
CurRec == RecAt(getIndex)

\* the record of a call: its name, argument and return value, the number of
\* cursor moves it made, and whether it decoded a record outside the array
Last(op, arg, ret, moves) ==
  [op |-> op, arg |-> arg, ret |-> ret, moves |-> moves, wild |-> FALSE]

\* select with the range test off by one ("number>numCatalogs()")
select_pastEnd(number) ==
  LET n == IF number < 0 \/ number > numCatalogs THEN -1 ELSE number
      t == IF n >= 0 THEN catalog[n].CatalogType ELSE "CAT_NONE"
      o == IF n >= 0 THEN catalog[n].Objects ELSE NULL
  IN  /\ _selected' = (IF t \in CatTypes THEN n ELSE -1)
      /\ _genStarCatalog'      = (IF t = "CAT_GEN_STAR"       THEN o ELSE NULL)
      /\ _genStarVCompCatalog' = (IF t = "CAT_GEN_STAR_VCOMP" THEN o ELSE NULL)
      /\ _dblStarCatalog'      = (IF t = "CAT_DBL_STAR"       THEN o ELSE NULL)
      /\ _dblStarCompCatalog'  = (IF t = "CAT_DBL_STAR_COMP"  THEN o ELSE _dblStarCompCatalog)
      /\ _varStarCatalog'      = (IF t = "CAT_VAR_STAR"       THEN o ELSE _varStarCatalog)
      /\ _dsoCatalog'          = (IF t = "CAT_DSO"            THEN o ELSE NULL)
      /\ _dsoCompCatalog'      = (IF t = "CAT_DSO_COMP"       THEN o ELSE NULL)
      /\ _dsoVCompCatalog'     = (IF t = "CAT_DSO_VCOMP"      THEN o ELSE NULL)
      /\ last' = Last("select", number, FALSE, 0)
      /\ UNCHANGED << catalog, observer, filter, junk, place >>

\* select(number): six of the eight views are reset (not _dblStarCompCatalog,
\* not _varStarCatalog), the number is validated, and the view of the
\* catalog's type is bound; an unknown type leaves nothing selected
select(number) ==
  LET n == IF number < 0 \/ number >= numCatalogs THEN -1 ELSE number
      t == IF n >= 0 THEN catalog[n].CatalogType ELSE "CAT_NONE"
      o == IF n >= 0 THEN catalog[n].Objects ELSE NULL
  IN  /\ _selected' = (IF t \in CatTypes THEN n ELSE -1)
      /\ _genStarCatalog'      = (IF t = "CAT_GEN_STAR"       THEN o ELSE NULL)
      /\ _genStarVCompCatalog' = (IF t = "CAT_GEN_STAR_VCOMP" THEN o ELSE NULL)
      /\ _dblStarCatalog'      = (IF t = "CAT_DBL_STAR"       THEN o ELSE NULL)
      /\ _dblStarCompCatalog'  = (IF t = "CAT_DBL_STAR_COMP"  THEN o ELSE _dblStarCompCatalog)
      /\ _varStarCatalog'      = (IF t = "CAT_VAR_STAR"       THEN o ELSE _varStarCatalog)
      /\ _dsoCatalog'          = (IF t = "CAT_DSO"            THEN o ELSE NULL)
      /\ _dsoCompCatalog'      = (IF t = "CAT_DSO_COMP"       THEN o ELSE NULL)
      /\ _dsoVCompCatalog'     = (IF t = "CAT_DSO_VCOMP"      THEN o ELSE NULL)
      /\ last' = Last("select", number, FALSE, 0)
      /\ UNCHANGED << catalog, observer, filter, junk, place >>

(***************************************************************************)
(* Accessors of the record under the cursor.                               *)
(***************************************************************************)
catalogTitle  == IF _selected < 0 THEN "" ELSE catalog[_selected].Title
catalogPrefix == IF _selected < 0 THEN "" ELSE catalog[_selected].Prefix
epoch         == IF _selected < 0 THEN -1 ELSE catalog[_selected].Epoch

rah == IF _selected < 0 THEN 0 ELSE rahOf(catalogType, CurRec)

\* dec() has no "_selected<0" test: with nothing selected it reads
\* catalog[-1].CatalogType, and then through whatever view that names; the set
\* of values it can return
dec ==
  IF _selected < 0
    THEN {0} \cup { decOf(t, r) : t \in CatTypes, r \in JunkRecs }
    ELSE { decOf(catalogType, CurRec) }

magnitude     == IF _selected < 0 THEN 9990 ELSE magnitudeOf(catalogType, CurRec)
magnitude2    == IF _selected < 0 THEN 9990 ELSE magnitude2Of(catalogType, CurRec)
constellation == IF _selected < 0 THEN 89 ELSE constellationOf(catalogType, CurRec)
objectType    == IF _selected < 0 THEN ByteOf(-1) ELSE objectTypeOf(catalogType, CurRec)
period        == IF _selected < 0 THEN -100 ELSE periodOf(catalogType, CurRec)
positionAngle == IF _selected < 0 THEN -1 ELSE positionAngleOf(catalogType, CurRec)
separation    == IF _selected < 0 THEN 9999 ELSE separationOf(catalogType, CurRec)
bayerFlam     == IF _selected < 0 THEN -1 ELSE bayerFlamOf(catalogType, CurRec)

primaryId ==
  IF _selected < 0 THEN -1
  ELSE IF catalogType \in {"CAT_GEN_STAR_VCOMP", "CAT_DSO_VCOMP"} THEN getIndex + 1
  ELSE IF catalogType \in CatTypes THEN CurRec.Obj_id ELSE -1

\* CodeOf counting the records before the cursor only ("i<j" for "i<=j")
CodeOf_exclusive(flag) ==
  LET j == IF getIndex > getMaxIndex THEN -1 ELSE getIndex
      v == Data(View(catalogType))
  IN  IF j < 0 THEN -1
      ELSE -1 + Cardinality({ i \in 0..(j - 1) : v[i + 1][flag] # 0 })

\* the "find the code" loops of objectName()/subId(): result starts at -1 and
\* is incremented once for every record 0..j whose flag (the field named
\* flag: "Has_name" or "Has_subId") is set
CodeOf(flag) ==
  LET j == IF getIndex > getMaxIndex THEN -1 ELSE getIndex
      v == Data(View(catalogType))
  IN  IF j < 0 THEN -1
      ELSE -1 + Cardinality({ i \in 0..j : v[i + 1][flag] # 0 })

objectName ==
  IF _selected < 0 THEN -1
  ELSE IF catalogType \notin CatTypes THEN -1
  ELSE IF CurRec.Has_name = 0 THEN -1
  ELSE CodeOf("Has_name")

subId ==
  IF _selected < 0 THEN -1
  ELSE IF catalogType \notin CatTypes THEN -1
  ELSE IF CurRec.Has_subId = 0 THEN -1
  ELSE CodeOf("Has_subId")

\* getElementFromString: the index where element n starts, scanning from i
\* (-1: the scan ended without finding it)
RECURSIVE FindStart(_, _, _)
FindStart(data, i, n) ==
  IF i >= Len(data) THEN -1
  ELSE IF n = 0 THEN i
  ELSE FindStart(data, i + 1, IF data[i + 1] = ";" THEN n - 1 ELSE n)

\* getElementFromString: the characters copied from index i up to the next
\* ';' or the end of the table
RECURSIVE CopyFrom(_, _)
CopyFrom(data, i) ==
  IF i >= Len(data) THEN << >>
  ELSE IF data[i + 1] = ";" THEN << >>
  ELSE << data[i + 1] >> \o CopyFrom(data, i + 1)

getElementFromString(data, elementNum) ==
  LET j == FindStart(data, 0, elementNum)
  IN  IF j >= 0 THEN CopyFrom(data, j) ELSE << >>

objectNameStr ==
  IF _selected < 0 THEN << >>
  ELSE IF objectName >= 0
    THEN getElementFromString(Chars(catalog[_selected].ObjectNames), objectName)
    ELSE << >>

subIdStr ==
  IF _selected < 0 THEN << >>
  ELSE IF subId >= 0
    THEN getElementFromString(Chars(catalog[_selected].ObjectSubIds), subId)
    ELSE << >>

(***************************************************************************)
(* Exact numbers for the coordinate transforms.                            *)
(*                                                                         *)
(* EquToHor() and HorToEqu() compute with double.  The model computes the  *)
(* same expressions exactly, on the numbers (p/q) * sqrt(n) with integers  *)
(* p, q > 0 and n >= 1 square-free; the inputs are chosen so that every    *)
(* sum the code forms is a sum of such numbers with the same n.  An angle  *)
(* is the record [c, s] of its cosine and sine, so that an angle is kept   *)
(* modulo 360 degrees and the conversions between degrees and radians      *)
(* (x/Rad, x*Rad) do not appear.  Rounding is not modelled.                *)
(*   q = 0, p # 0 : the huge value tan() returns at a right angle, with    *)
(*                  the sign p (the double nearest to pi/2 is not pi/2)    *)
(*   NaN          : the result of asin() outside [-1, 1], and any value    *)
(*                  that is not of the form above                          *)
(***************************************************************************)
Abs(x) == IF x > 0 THEN x ELSE -x

RECURSIVE GCD(_, _)
GCD(a, b) == IF b = 0 THEN a ELSE GCD(b, a % b)

\* the largest k >= from with k*k dividing n, or best when there is none
RECURSIVE SquarePart(_, _, _)
SquarePart(n, from, best) ==
  IF from * from > n THEN best
  ELSE SquarePart(n, from + 1, IF n % (from * from) = 0 THEN from ELSE best)

Surd(p, q, n) == [p |-> p, q |-> q, n |-> n]
Zero == Surd(0, 1, 1)
One  == Surd(1, 1, 1)
NaN  == Surd(0, 0, 0)
Huge(sign) == Surd(sign, 0, 1)
IsHuge(a) == a.q = 0 /\ a.p # 0
Sgn(a) == IF a.p > 0 THEN 1 ELSE IF a.p < 0 THEN -1 ELSE 0

\* (p/q) * sqrt(n) in lowest terms, for n square-free
Reduce(p, q, n) ==
  IF p = 0 THEN Zero
  ELSE LET g == GCD(Abs(p), q) IN Surd(p \div g, q \div g, n)

Neg(a) == [a EXCEPT !.p = -a.p]

Mul(a, b) ==
  IF a = NaN \/ b = NaN THEN NaN
  ELSE IF Sgn(a) * Sgn(b) = 0 THEN Zero
  ELSE IF IsHuge(a) \/ IsHuge(b) THEN Huge(Sgn(a) * Sgn(b))
  ELSE LET g == GCD(a.n, b.n)
       IN Reduce(a.p * b.p * g, a.q * b.q, (a.n \div g) * (b.n \div g))

Add(a, b) ==
  IF a = NaN \/ b = NaN THEN NaN
  ELSE IF IsHuge(a) THEN a
  ELSE IF IsHuge(b) THEN b
  ELSE IF a.p = 0 THEN b
  ELSE IF b.p = 0 THEN a
  ELSE IF a.n = b.n THEN Reduce(a.p * b.q + b.p * a.q, a.q * b.q, a.n)
  ELSE NaN

Sub(a, b) == Add(a, Neg(b))

Div(a, b) ==
  IF a = NaN \/ b = NaN THEN NaN
  ELSE IF IsHuge(b) THEN Zero
  ELSE IF b.p = 0 THEN Huge(Sgn(a))
  ELSE Mul(a, Reduce(Sgn(b) * b.q, Abs(b.p) * b.n, b.n))

\* sqrt() of a rational number
Sqrt(a) ==
  IF a = NaN \/ IsHuge(a) \/ a.n # 1 \/ a.p < 0 THEN NaN
  ELSE IF a.p = 0 THEN Zero
  ELSE LET kp == SquarePart(a.p, 1, 1)
           kq == SquarePart(a.q, 1, 1)
           rp == a.p \div (kp * kp)
           rq == a.q \div (kq * kq)
       IN Reduce(kp, kq * rq, rp * rq)

\* the angle with cosine c and sine s
Angle(c, s) == [c |-> c, s |-> s]
HalfTurn(a) == Angle(Neg(a.c), Neg(a.s))
\* a - b
AngleDiff(a, b) ==
  Angle(Add(Mul(a.c, b.c), Mul(a.s, b.s)), Sub(Mul(a.s, b.c), Mul(a.c, b.s)))

\* the angle of d degrees, d a multiple of 45
CosDeg(d) ==
  LET e == d % 360
  IN IF e = 0 THEN One
     ELSE IF e = 45 \/ e = 315 THEN Surd(1, 2, 2)
     ELSE IF e = 135 \/ e = 225 THEN Surd(-1, 2, 2)
     ELSE IF e = 180 THEN Surd(-1, 1, 1)
     ELSE Zero
Deg(d) == Angle(CosDeg(d), CosDeg(d + 270))

\* <math.h>
sin(a) == a.s
cos(a) == a.c
tan(a) == IF a.c = NaN \/ a.s = NaN THEN NaN
          ELSE IF a.c.p = 0 THEN Huge(Sgn(a.s)) ELSE Div(a.s, a.c)
\* asin(x) lies in [-90, 90] degrees: its cosine is not negative
asin(x) == Angle(Sqrt(Sub(One, Mul(x, x))), IF Sqrt(Sub(One, Mul(x, x))) = NaN THEN NaN ELSE x)
\* atan2(0, 0) is 0
atan2(y, x) ==
  IF x = NaN \/ y = NaN THEN Angle(NaN, NaN)
  ELSE IF x.p = 0 /\ y.p = 0 THEN Angle(One, Zero)
  ELSE IF IsHuge(x) THEN Angle(Reduce(Sgn(x), 1, 1), Zero)
  ELSE IF IsHuge(y) THEN Angle(Zero, Reduce(Sgn(y), 1, 1))
  ELSE LET r == Sqrt(Add(Mul(x, x), Mul(y, y)))
       IN Angle(Div(x, r), Div(y, r))

(***************************************************************************)
(* Observer state.                                                         *)
(***************************************************************************)
setLat(lat) ==
  /\ _lat' = lat
  /\ IF lat < 9999
       THEN _cosLat' = cos(Deg(lat)) /\ _sinLat' = sin(Deg(lat))
       ELSE UNCHANGED << _cosLat, _sinLat >>
  /\ last' = Last("setLat", 0, FALSE, 0)
  /\ UNCHANGED << catalog, _selected, ptrs, _lstT0, filter, junk, place >>

setLstT0(lstT0) ==
  /\ _lstT0' = lstT0
  /\ last' = Last("setLstT0", 0, FALSE, 0)
  /\ UNCHANGED << catalog, _selected, ptrs, _lat, _cosLat, _sinLat, filter, junk, place >>

\* isInitialized with "||" for "&&"
isInitialized_either == (_lat < 9999) \/ (_lstT0 # 0)

isInitialized == (_lat < 9999) /\ (_lstT0 # 0)

(***************************************************************************)
(* Coordinate transforms.  RA, Dec, Alt and Azm are the caller's variables *)
(* that the calls read and write through their pointer arguments.          *)
(***************************************************************************)
\* lstHours()*15.0, at the instant setLstT0() was called
lstDegs == Deg(_lstT0 * 15)

Place(r, d) == [RA |-> r, Dec |-> d]
Horizon(alt, azm) == [Alt |-> alt, Azm |-> azm]

EquToHorAt(r, d) ==
  LET HA     == AngleDiff(lstDegs, r)
      SinAlt == Add(Mul(sin(d), _sinLat), Mul(Mul(cos(d), _cosLat), cos(HA)))
      t1     == sin(HA)
      t2     == Sub(Mul(cos(HA), _sinLat), Mul(tan(d), _cosLat))
  IN Horizon(asin(SinAlt), HalfTurn(atan2(t1, t2)))

\* HorToEqu without the half turn added to the hour angle
HorToEquAt_noHalfTurn(alt, azm) ==
  LET SinDec == Add(Mul(sin(alt), _sinLat), Mul(Mul(cos(alt), _cosLat), cos(azm)))
      t1     == sin(azm)
      t2     == Sub(Mul(cos(azm), _sinLat), Mul(tan(alt), _cosLat))
      HA     == atan2(t1, t2)
  IN Place(AngleDiff(lstDegs, HA), asin(SinDec))

HorToEquAt(alt, azm) ==
  LET SinDec == Add(Mul(sin(alt), _sinLat), Mul(Mul(cos(alt), _cosLat), cos(azm)))
      t1     == sin(azm)
      t2     == Sub(Mul(cos(azm), _sinLat), Mul(tan(alt), _cosLat))
      HA     == HalfTurn(atan2(t1, t2))
  IN Place(AngleDiff(lstDegs, HA), asin(SinDec))

\* the angles with cosine c/5 and sine s/5
Fifths(c, s) == Angle(Reduce(c, 5, 1), Reduce(s, 5, 1))
\* right ascensions and declinations the calls are made with; the
\* declinations include both celestial poles
RAArgs  == { Fifths(4, 3), Fifths(-3, 4), Fifths(-4, -3), Fifths(0, -5) }
DecArgs == { Fifths(0, -5), Fifths(3, -4), Fifths(5, 0), Fifths(4, 3), Fifths(0, 5) }

\* EquToHor(r, d, &Alt, &Azm)
EquToHor(r, d) ==
  /\ \E h \in { EquToHorAt(r, d) } : Alt' = h.Alt /\ Azm' = h.Azm
  /\ last' = Last("EquToHor", Place(r, d), FALSE, 0)
  /\ UNCHANGED << catalog, _selected, ptrs, observer, filter, junk, RA, Dec >>

\* HorToEqu(Alt, Azm, &RA, &Dec)
HorToEqu ==
  /\ \E e \in { HorToEquAt(Alt, Azm) } : RA' = e.RA /\ Dec' = e.Dec
  /\ last' = Last("HorToEqu", 0, FALSE, 0)
  /\ UNCHANGED << catalog, _selected, ptrs, observer, filter, junk, Alt, Azm >>

\* The place EquToHor -> Alt + TrueRefrac(Alt)/60 -> HorToEqu gives: the
\* refracted altitude is not one of the model's exact numbers, so the model
\* lets the call write any place
Observed == { Place(r, d) : r \in RAArgs, d \in DecArgs }

\* topocentricToObservedPlace without the isInitialized() test
topocentricToObservedPlace_always ==
  /\ \E o \in Observed : RA' = o.RA /\ Dec' = o.Dec
  /\ last' = Last("topocentricToObservedPlace", 0, FALSE, 0)
  /\ UNCHANGED << catalog, _selected, ptrs, observer, filter, junk, Alt, Azm >>

topocentricToObservedPlace ==
  /\ IF isInitialized
       THEN \E o \in Observed : RA' = o.RA /\ Dec' = o.Dec
       ELSE UNCHANGED << RA, Dec >>
  /\ last' = Last("topocentricToObservedPlace", 0, FALSE, 0)
  /\ UNCHANGED << catalog, _selected, ptrs, observer, filter, junk, Alt, Azm >>

(***************************************************************************)
(* Filter state.  FM_NONE is the empty set of bits.                        *)
(***************************************************************************)
FM_NONE == {}

FilterBits ==
  {"FM_ABOVE_HORIZON", "FM_ALIGN_ALL_SKY", "FM_CONSTELLATION", "FM_OBJ_TYPE",
   "FM_BY_MAG", "FM_NEARBY", "FM_DBL_MIN_SEP", "FM_DBL_MAX_SEP", "FM_VAR_MAX_PER"}

filtersClear ==
  /\ _fm' = FM_NONE
  /\ last' = Last("filtersClear", 0, FALSE, 0)
  /\ UNCHANGED << catalog, _selected, ptrs, observer, _fm_con, _fm_mag_limit,
                  _fm_nearby_dist, _fm_obj_type, _fm_dbl_min, _fm_dbl_max, _fm_var_max,
                  junk, place >>

\* filterAdd(int fm)
filterAdd1(fm) ==
  /\ _fm' = _fm \cup fm
  /\ last' = Last("filterAdd", 0, FALSE, 0)
  /\ UNCHANGED << catalog, _selected, ptrs, observer, _fm_con, _fm_mag_limit,
                  _fm_nearby_dist, _fm_obj_type, _fm_dbl_min, _fm_dbl_max, _fm_var_max,
                  junk, place >>

\* the parameter tables of filterAdd(int fm, int param)
MagLimitOf(param) ==
  CASE param = 0 -> 1000 [] param = 1 -> 1200 [] param = 2 -> 1300 [] param = 3 -> 1400
    [] param = 4 -> 1500 [] param = 5 -> 1600 [] param = 6 -> 1700 [] OTHER -> 10000

NearbyDistOf(param) ==
  CASE param = 0 -> 1 [] param = 1 -> 5 [] param = 2 -> 10 [] param = 3 -> 15
    [] OTHER -> 9999

DblMinOf(param) ==
  CASE param = 0 -> 2 [] param = 1 -> 5 [] param = 2 -> 10 [] param = 3 -> 15
    [] param = 4 -> 20 [] param = 5 -> 30 [] param = 6 -> 50 [] param = 7 -> 100
    [] param = 8 -> 200 [] param = 9 -> 500 [] OTHER -> 0

DblMaxOf(param) ==
  CASE param = 0 -> 5 [] param = 1 -> 10 [] param = 2 -> 15 [] param = 3 -> 20
    [] param = 4 -> 30 [] param = 5 -> 50 [] param = 6 -> 100 [] param = 7 -> 200
    [] param = 8 -> 500 [] param = 9 -> 1000 [] OTHER -> 0

VarMaxOf(param) ==
  CASE param = 0 -> 50 [] param = 1 -> 100 [] param = 2 -> 200 [] param = 3 -> 500
    [] param = 4 -> 1000 [] param = 5 -> 2000 [] param = 6 -> 5000 [] param = 7 -> 10000
    [] OTHER -> 0

\* the filter parameters as one record
Params ==
  [con |-> _fm_con, mag_limit |-> _fm_mag_limit, nearby_dist |-> _fm_nearby_dist,
   obj_type |-> _fm_obj_type, dbl_min |-> _fm_dbl_min, dbl_max |-> _fm_dbl_max,
   var_max |-> _fm_var_max]

\* the parameters after filterAdd(fm, param), from parameters P
ParamsAdd(P, fm, param) ==
  [con         |-> IF "FM_CONSTELLATION" \in fm THEN param ELSE P.con,
   mag_limit   |-> IF "FM_BY_MAG" \in fm THEN MagLimitOf(param) ELSE P.mag_limit,
   nearby_dist |-> IF "FM_NEARBY" \in fm THEN NearbyDistOf(param) ELSE P.nearby_dist,
   obj_type    |-> IF "FM_OBJ_TYPE" \in fm THEN param ELSE P.obj_type,
   dbl_min     |-> IF "FM_DBL_MIN_SEP" \in fm THEN DblMinOf(param) ELSE P.dbl_min,
   dbl_max     |-> IF "FM_DBL_MAX_SEP" \in fm THEN DblMaxOf(param) ELSE P.dbl_max,
   var_max     |-> IF "FM_VAR_MAX_PER" \in fm THEN VarMaxOf(param) ELSE P.var_max]

\* filterAdd(int fm, int param)
filterAdd(fm, param) ==
  LET P == ParamsAdd(Params, fm, param) IN
  /\ _fm' = _fm \cup fm
  /\ _fm_con'         = P.con
  /\ _fm_mag_limit'   = P.mag_limit
  /\ _fm_nearby_dist' = P.nearby_dist
  /\ _fm_obj_type'    = P.obj_type
  /\ _fm_dbl_min'     = P.dbl_min
  /\ _fm_dbl_max'     = P.dbl_max
  /\ _fm_var_max'     = P.var_max
  /\ last' = Last("filterAdd", 0, FALSE, 0)
  /\ UNCHANGED << catalog, _selected, ptrs, observer, junk, place >>


\* Criteria with the magnitude test ">" for ">="
Criteria_magGt(t, r, fm, P) ==
  IF "FM_ABOVE_HORIZON" \in fm /\ altOf(t, r) < 0 THEN TRUE
  ELSE IF "FM_ALIGN_ALL_SKY" \in fm /\ altOf(t, r) < 10 THEN TRUE
  ELSE IF "FM_ALIGN_ALL_SKY" \in fm /\ Abs(decOf(t, r)) > 85 THEN TRUE
  ELSE IF "FM_CONSTELLATION" \in fm /\ constellationOf(t, r) # P.con THEN TRUE
  ELSE IF t \in DsoTypes /\ "FM_OBJ_TYPE" \in fm /\ objectTypeOf(t, r) # P.obj_type THEN TRUE
  ELSE IF "FM_BY_MAG" \in fm /\ magnitudeOf(t, r) > P.mag_limit THEN TRUE
  ELSE IF "FM_NEARBY" \in fm /\ DistFromEquOf(t, r) >= P.nearby_dist THEN TRUE
  ELSE IF "FM_DBL_MAX_SEP" \in fm /\ t \in DblTypes /\ separationOf(t, r) > P.dbl_max THEN TRUE
  ELSE IF "FM_DBL_MIN_SEP" \in fm /\ t \in DblTypes /\ separationOf(t, r) < P.dbl_min THEN TRUE
  ELSE IF "FM_VAR_MAX_PER" \in fm /\ t = "CAT_VAR_STAR" /\ periodOf(t, r) > P.var_max THEN TRUE
  ELSE FALSE

\* Criteria with the double-star test left out of the maximum-separation
\* criterion
Criteria_sepAnyType(t, r, fm, P) ==
  IF "FM_ABOVE_HORIZON" \in fm /\ altOf(t, r) < 0 THEN TRUE
  ELSE IF "FM_ALIGN_ALL_SKY" \in fm /\ altOf(t, r) < 10 THEN TRUE
  ELSE IF "FM_ALIGN_ALL_SKY" \in fm /\ Abs(decOf(t, r)) > 85 THEN TRUE
  ELSE IF "FM_CONSTELLATION" \in fm /\ constellationOf(t, r) # P.con THEN TRUE
  ELSE IF t \in DsoTypes /\ "FM_OBJ_TYPE" \in fm /\ objectTypeOf(t, r) # P.obj_type THEN TRUE
  ELSE IF "FM_BY_MAG" \in fm /\ magnitudeOf(t, r) >= P.mag_limit THEN TRUE
  ELSE IF "FM_NEARBY" \in fm /\ DistFromEquOf(t, r) >= P.nearby_dist THEN TRUE
  ELSE IF "FM_DBL_MAX_SEP" \in fm /\ separationOf(t, r) > P.dbl_max THEN TRUE
  ELSE IF "FM_DBL_MIN_SEP" \in fm /\ t \in DblTypes /\ separationOf(t, r) < P.dbl_min THEN TRUE
  ELSE IF "FM_VAR_MAX_PER" \in fm /\ t = "CAT_VAR_STAR" /\ periodOf(t, r) > P.var_max THEN TRUE
  ELSE FALSE

\* the criteria of isFiltered() after its two early returns, on record r of a
\* catalog of type t, with filter bits fm and parameters P, in the code's
\* order; TRUE is "filtered out"
Criteria(t, r, fm, P) ==
  IF "FM_ABOVE_HORIZON" \in fm /\ altOf(t, r) < 0 THEN TRUE
  ELSE IF "FM_ALIGN_ALL_SKY" \in fm /\ altOf(t, r) < 10 THEN TRUE
  ELSE IF "FM_ALIGN_ALL_SKY" \in fm /\ Abs(decOf(t, r)) > 85 THEN TRUE
  ELSE IF "FM_CONSTELLATION" \in fm /\ constellationOf(t, r) # P.con THEN TRUE
  ELSE IF t \in DsoTypes /\ "FM_OBJ_TYPE" \in fm /\ objectTypeOf(t, r) # P.obj_type THEN TRUE
  ELSE IF "FM_BY_MAG" \in fm /\ magnitudeOf(t, r) >= P.mag_limit THEN TRUE
  ELSE IF "FM_NEARBY" \in fm /\ DistFromEquOf(t, r) >= P.nearby_dist THEN TRUE
  ELSE IF "FM_DBL_MAX_SEP" \in fm /\ t \in DblTypes /\ separationOf(t, r) > P.dbl_max THEN TRUE
  ELSE IF "FM_DBL_MIN_SEP" \in fm /\ t \in DblTypes /\ separationOf(t, r) < P.dbl_min THEN TRUE
  ELSE IF "FM_VAR_MAX_PER" \in fm /\ t = "CAT_VAR_STAR" /\ periodOf(t, r) > P.var_max THEN TRUE
  ELSE FALSE

\* isFiltered() with record r under the cursor, filter bits fm and
\* parameters P
FilteredWith(r, fm, P) ==
  IF ~isInitialized THEN FALSE
  ELSE IF fm = FM_NONE THEN FALSE
  ELSE Criteria(catalogType, r, fm, P)

\* isFiltered() with record r under the cursor
FilteredRec(r) == FilteredWith(r, _fm, Params)

\* isFiltered() with the cursor at idx
FilteredAt(idx) == FilteredRec(RecAt(idx))

\* isFiltered() at the cursor
isFiltered == FilteredRec(CurRec)

(***************************************************************************)
(* Navigation.  The do-while loops of incIndex()/decIndex() as recursive   *)
(* operators: from cursor idx with i attempts left, after moves cursor     *)
(* moves, they yield the outcome [idx, ret, moves, wild].  The value       *)
(* isFiltered() gave in the loop condition is the one the final test sees: *)
(* nothing changes in between.                                             *)
(***************************************************************************)
Outcome(idx, ret, moves, wild) ==
  [idx |-> idx, ret |-> ret, moves |-> moves, wild |-> wild]

\* isFiltered() reaches an accessor that indexes the record array: a
\* criterion is enabled that applies to catalog type t
ReadsRecord(t, fm) ==
  \/ fm \cap {"FM_ABOVE_HORIZON", "FM_ALIGN_ALL_SKY", "FM_CONSTELLATION",
              "FM_BY_MAG", "FM_NEARBY"} # {}
  \/ "FM_OBJ_TYPE" \in fm /\ t \in DsoTypes
  \/ fm \cap {"FM_DBL_MAX_SEP", "FM_DBL_MIN_SEP"} # {} /\ t \in DblTypes
  \/ "FM_VAR_MAX_PER" \in fm /\ t = "CAT_VAR_STAR"

\* isFiltered() with the cursor at idx decodes a record outside the array
WildRead(idx) ==
  /\ isInitialized /\ _fm # FM_NONE /\ ReadsRecord(catalogType, _fm)
  /\ ~(idx >= 0 /\ idx <= getMaxIndex)

\* incLoop giving up one attempt early ("i>1" for "i>0")
RECURSIVE incLoop_shortPass(_, _, _, _)
incLoop_shortPass(idx, i, moves, wild) ==
  LET i2   == i - 1
      idx2 == IF IncLong(idx) > getMaxIndex THEN 0 ELSE IncLong(idx)
      f    == FilteredAt(idx2)
      w    == wild \/ WildRead(idx2)
  IN  IF f /\ i2 > 1 THEN incLoop_shortPass(idx2, i2, moves + 1, w)
                     ELSE Outcome(idx2, ~f, moves + 1, w)

RECURSIVE incLoop(_, _, _, _)
incLoop(idx, i, moves, wild) ==
  LET i2   == i - 1
      idx2 == IF IncLong(idx) > getMaxIndex THEN 0 ELSE IncLong(idx)
      f    == FilteredAt(idx2)
      w    == wild \/ WildRead(idx2)
  IN  IF f /\ i2 > 0 THEN incLoop(idx2, i2, moves + 1, w)
                     ELSE Outcome(idx2, ~f, moves + 1, w)

\* decLoop wrapping to index 0 instead of the last index
RECURSIVE decLoop_wrapToZero(_, _, _, _)
decLoop_wrapToZero(idx, i, moves, wild) ==
  LET i2   == i - 1
      idx2 == IF DecLong(idx) < 0 THEN 0 ELSE DecLong(idx)
      f    == FilteredAt(idx2)
      w    == wild \/ WildRead(idx2)
  IN  IF f /\ i2 > 0 THEN decLoop_wrapToZero(idx2, i2, moves + 1, w)
                     ELSE Outcome(idx2, ~f, moves + 1, w)

RECURSIVE decLoop(_, _, _, _)
decLoop(idx, i, moves, wild) ==
  LET i2   == i - 1
      idx2 == IF DecLong(idx) < 0 THEN getMaxIndex ELSE DecLong(idx)
      f    == FilteredAt(idx2)
      w    == wild \/ WildRead(idx2)
  IN  IF f /\ i2 > 0 THEN decLoop(idx2, i2, moves + 1, w)
                     ELSE Outcome(idx2, ~f, moves + 1, w)

\* the outcome of incIndex() / decIndex() with the cursor at idx
incIndexFrom(idx) == incLoop(idx, getMaxIndex + 1, 0, FALSE)
decIndexFrom(idx) == decLoop(idx, getMaxIndex + 1, 0, FALSE)

\* setIndex without its decIndex() step
setIndexFrom_noDec(index) == incIndexFrom(index)

\* the outcome of setIndex(index) with a catalog selected: decIndex(), then
\* incIndex(), whose result is returned
setIndexFrom(index) ==
  LET d == decIndexFrom(index)
      o == incIndexFrom(d.idx)
  IN  Outcome(o.idx, o.ret, d.moves + o.moves, d.wild \/ o.wild)

\* the cursor of the selected catalog is an index of its array
CursorInRange == _selected >= 0 /\ getIndex >= 0 /\ getIndex <= getMaxIndex

\* incIndex()/decIndex() index catalog[_selected] unguarded; the callers only
\* navigate a selected catalog, and so does the model
incIndex ==
  /\ _selected >= 0
  /\ LET o == incIndexFrom(getIndex) IN
       /\ catalog' = [catalog EXCEPT ![_selected].Index = o.idx]
       /\ last' = [Last("incIndex", 0, o.ret, o.moves) EXCEPT !.wild = o.wild]
  /\ UNCHANGED << _selected, ptrs, observer, filter, junk, place >>

decIndex ==
  /\ _selected >= 0
  /\ LET o == decIndexFrom(getIndex) IN
       /\ catalog' = [catalog EXCEPT ![_selected].Index = o.idx]
       /\ last' = [Last("decIndex", 0, o.ret, o.moves) EXCEPT !.wild = o.wild]
  /\ UNCHANGED << _selected, ptrs, observer, filter, junk, place >>

setIndex(index) ==
  /\ IF _selected < 0
       THEN /\ last' = Last("setIndex", index, FALSE, 0)
            /\ UNCHANGED catalog
       ELSE LET o == setIndexFrom(index) IN
            /\ catalog' = [catalog EXCEPT ![_selected].Index = o.idx]
            /\ last' = [Last("setIndex", index, o.ret, o.moves) EXCEPT !.wild = o.wild]
  /\ UNCHANGED << _selected, ptrs, observer, filter, junk, place >>

(***************************************************************************)
(* Specifications.                                                         *)
(***************************************************************************)
\* the members' values before any setter is called (Catalog.h): nothing
\* selected, no filter, observer unset
MemberDefaults ==
  /\ _selected = -1
  /\ _lat = 9999 /\ _lstT0 = 0
  /\ _cosLat = Zero /\ _sinLat = Zero
  /\ _fm = FM_NONE
  /\ _fm_con = 0 /\ _fm_mag_limit = 10000 /\ _fm_nearby_dist = 9999
  /\ _fm_obj_type = 0 /\ _fm_dbl_min = 0 /\ _fm_dbl_max = 0 /\ _fm_var_max = 0

PtrsNull ==
  /\ _genStarCatalog = NULL /\ _genStarVCompCatalog = NULL
  /\ _dblStarCatalog = NULL /\ _dblStarCompCatalog = NULL
  /\ _varStarCatalog = NULL /\ _dsoCatalog = NULL
  /\ _dsoCompCatalog = NULL /\ _dsoVCompCatalog = NULL

InitMgr(registry, junks) ==
  /\ catalog = registry
  /\ junk \in [ {0, 1} -> junks ]
  /\ PtrsNull
  /\ MemberDefaults
  /\ last = Last("init", 0, FALSE, 0)

\* the specifications that make no coordinate transform keep one place
InitWith(registry, junks) ==
  /\ InitMgr(registry, junks)
  /\ RA = Deg(0) /\ Dec = Deg(0) /\ Alt = Deg(0) /\ Azm = Deg(0)

\* arguments of the calls
SelectArgs   == -1 .. (NumEntries - 1 + MaxSelOver)
NearArgs     == IF _selected >= 0 THEN (0 - MaxOver) .. (getMaxIndex + 1 + MaxOver)
                                  ELSE (0 - MaxOver) .. MaxOver
SetIndexArgs == NearArgs \cup {LONG_MIN, LONG_MAX}
Lats         == {45, 9999}
LstT0s       == {0, 6}

\* the filter criteria the navigation specification enables
NavFilterArgs ==
  { << {"FM_BY_MAG"}, 0 >>, << {"FM_BY_MAG"}, 7 >>, << {"FM_CONSTELLATION"}, 2 >> }

\* Spec steps a cursor with incIndex()/decIndex() while it is in the array;
\* from a cursor that has left it, it goes on with setIndex() and select()
\* (SpecLost steps such a cursor)
Init == InitWith(RegistryNav, JunkRecs)

Next ==
  \/ \E n \in SelectArgs : select(n)
  \/ \E i \in SetIndexArgs : setIndex(i)
  \/ CursorInRange /\ incIndex
  \/ CursorInRange /\ decIndex
  \/ \E lat \in Lats : setLat(lat)
  \/ \E l \in LstT0s : setLstT0(l)
  \/ filtersClear
  \/ \E a \in NavFilterArgs : filterAdd(a[1], a[2])

Spec == Init /\ [][Next]_vars

(***************************************************************************)
(* SpecTypes: a registry with a catalog of each of the eight types, and    *)
(* the criteria that apply to some catalog types only; the cursors stay    *)
(* where the registry puts them.                                           *)
(***************************************************************************)
TypeFilterArgs ==
  { << {"FM_OBJ_TYPE"}, 5 >>, << {"FM_DBL_MIN_SEP"}, 2 >>, << {"FM_DBL_MAX_SEP"}, 6 >>,
    << {"FM_VAR_MAX_PER"}, 1 >> }

\* no read leaves the arrays here: the cursors stay at 0
InitTypes == InitWith(RegistryTypes, { JunkPass })

NextTypes ==
  \/ \E n \in SelectArgs : select(n)
  \/ \E lat \in Lats : setLat(lat)
  \/ \E l \in LstT0s : setLstT0(l)
  \/ filtersClear
  \/ \E a \in TypeFilterArgs :
       Cardinality(_fm \cup a[1]) <= MaxEnabled /\ filterAdd(a[1], a[2])
  \/ Cardinality(_fm \cup {"FM_ALIGN_ALL_SKY"}) <= MaxEnabled
       /\ filterAdd1({"FM_ALIGN_ALL_SKY"})

SpecTypes == InitTypes /\ [][NextTypes]_vars

(***************************************************************************)
(* Claims.                                                                 *)
(***************************************************************************)
\* the typed views that are bound (non-NULL), by type name
BoundViews == { t \in CatTypes : View(t) # NULL }

\* C1: after select(n) with a valid n, catalogType() is the type of registry
\* entry n and exactly one typed view is bound: the one of that type, to the
\* entry's record array, the seven others being NULL.
C1_ExactlyOneView ==
  (last.op = "select" /\ last.arg >= 0 /\ last.arg < numCatalogs) =>
     /\ _selected = last.arg
     /\ catalogType = catalog[last.arg].CatalogType
     /\ View(catalogType) = catalog[last.arg].Objects
     /\ BoundViews = { catalogType }

\* C2: after select(n) with n < 0 or n >= numCatalogs() nothing is selected
\* and every accessor returns its unselected sentinel: rah() and dec() 0,
\* magnitude() and magnitude2() 99.9, separation() 999.9, positionAngle(),
\* period(), primaryId(), objectName(), subId(), bayerFlam(), epoch() and
\* objectType() -1, constellation() 89, the strings empty; and setIndex()
\* then returns false.
C2_UnselectedSentinels ==
  /\ (last.op = "select" /\ (last.arg < 0 \/ last.arg >= numCatalogs)) =>
       /\ _selected = -1
       /\ rah = 0
       /\ dec = {0}
       /\ magnitude = 9990 /\ magnitude2 = 9990
       /\ separation = 9999
       /\ positionAngle = -1 /\ period = -100 /\ primaryId = -1
       /\ objectName = -1 /\ subId = -1 /\ bayerFlam = -1 /\ epoch = -1
       /\ objectType = -1
       /\ constellation = 89
       /\ catalogTitle = "" /\ catalogPrefix = ""
       /\ objectNameStr = << >> /\ subIdStr = << >>
  /\ (last.op = "setIndex" /\ _selected < 0) => last.ret = FALSE

\* the indices of the active catalog, and those whose record passes the filter
Indices   == 0 .. getMaxIndex
Passing   == { k \in Indices : ~FilteredAt(k) }
NavOps    == {"setIndex", "incIndex", "decIndex"}

\* C3: while a catalog is selected its cursor lies in [0, record_count-1],
\* after every select(), setIndex(i) (i in range or not), incIndex() and
\* decIndex(), under any filter; so do the cursors of the other catalogs.
C3_CursorInRange ==
  /\ _selected >= 0 =>
       (getIndex >= 0 /\ getIndex <= catalog[_selected].NumObjects - 1)
  /\ \A n \in 0 .. (numCatalogs - 1) :
       catalog[n].Index >= 0 /\ catalog[n].Index <= catalog[n].NumObjects - 1

\* C4 as stated: observer initialized, FM_BY_MAG enabled with ceiling M, some
\* record of the active catalog with magnitude() < M; then after every
\* setIndex(), incIndex() and decIndex() the record under the cursor has
\* magnitude() < M.
C4_Original ==
  ( /\ _selected >= 0 /\ last.op \in NavOps
    /\ isInitialized /\ "FM_BY_MAG" \in _fm
    /\ \E k \in Indices : magnitudeOf(catalogType, RecAt(k)) < _fm_mag_limit )
  => magnitude < _fm_mag_limit

\* C4 amended: observer initialized, FM_BY_MAG enabled with ceiling M, some
\* record of the active catalog with magnitude() < M; then after every
\* setIndex(), incIndex() and decIndex() call that returns true the record
\* under the cursor has magnitude() < M.
C4_MagBelowCeiling ==
  ( /\ _selected >= 0 /\ last.op \in NavOps /\ last.ret
    /\ isInitialized /\ "FM_BY_MAG" \in _fm
    /\ \E k \in Indices : magnitudeOf(catalogType, RecAt(k)) < _fm_mag_limit )
  => magnitude < _fm_mag_limit

\* C4 witness: a navigation call skipped a record at or above the ceiling
C4_Witness ==
  /\ _selected >= 0 /\ last.op \in NavOps /\ last.moves > 1 /\ last.ret
  /\ isInitialized /\ _fm = {"FM_BY_MAG", "FM_CONSTELLATION"}
  /\ magnitude < _fm_mag_limit

\* C5: incIndex() and decIndex() end after at most N cursor moves (N the
\* record count); they return false if no record of the catalog is
\* unfiltered, and otherwise true with the cursor on an unfiltered record.
C5_BoundedPass ==
  (_selected >= 0 /\ last.op \in {"incIndex", "decIndex"}) =>
    /\ last.moves >= 1 /\ last.moves <= catalog[_selected].NumObjects
    /\ (Passing = {}) => (last.ret = FALSE)
    /\ (Passing # {}) => (last.ret = TRUE /\ getIndex \in Passing)

\* C5 witness: a full pass over a catalog whose records are all filtered out
C5_Witness ==
  /\ _selected >= 0 /\ last.op = "incIndex" /\ last.ret = FALSE
  /\ last.moves = catalog[_selected].NumObjects /\ last.moves >= 3
  /\ Passing = {}

\* C6: with an empty filter, incIndex() followed by decIndex() returns the
\* cursor to where it was, from every valid position; incIndex() at the last
\* index moves the cursor to 0 and decIndex() at index 0 moves it to the last
\* index.  (Every incIndex() step is followed here by what decIndex() does
\* from the state it leaves.)
C6_RoundTrip ==
  [][ (_selected >= 0 /\ _fm = FM_NONE) =>
        /\ (last'.op = "incIndex" /\ catalog' # catalog) =>
              /\ (decIndexFrom(getIndex))'.idx = getIndex
              /\ (decIndexFrom(getIndex))'.ret
              /\ getIndex = getMaxIndex => getIndex' = 0
              /\ getIndex < getMaxIndex => getIndex' = getIndex + 1
        /\ (last'.op = "decIndex" /\ catalog' # catalog) =>
              /\ getIndex = 0 => getIndex' = getMaxIndex
              /\ getIndex > 0 => getIndex' = getIndex - 1
    ]_vars

\* C6 witness: with an empty filter incIndex() has wrapped from the last
\* index of a three-record catalog to index 0
C6_Witness ==
  /\ _selected >= 0 /\ _fm = FM_NONE /\ last.op = "incIndex" /\ last.ret
  /\ getIndex = 0 /\ getMaxIndex = 2

\* the first index after i, in cyclic forward order, whose record passes the
\* filter (i itself when no other does)
FirstPassingAfter(i) ==
  LET n == getMaxIndex + 1
      ks == { k \in 1 .. n : ((i + k) % n) \in Passing }
  IN  IF ks = {} THEN i
      ELSE (i + (CHOOSE k \in ks : \A k2 \in ks : k <= k2)) % n

\* C7: for a valid index i of the selected catalog, setIndex(i) leaves the
\* cursor at i when record i passes the active filter, and otherwise at the
\* first record after i in cyclic forward order that passes it; it returns
\* true exactly when the record under the resulting cursor passes the filter.
C7_SetIndexSnapsForward ==
  (_selected >= 0 /\ last.op = "setIndex" /\ last.arg \in Indices) =>
    /\ (last.arg \in Passing) => getIndex = last.arg
    /\ (last.arg \notin Passing /\ Passing # {}) => getIndex = FirstPassingAfter(last.arg)
    /\ last.ret = (getIndex \in Passing)

\* C7 witness: setIndex(2) on a three-record catalog of which only record 1
\* passes the filter went round the end of the catalog to record 1
C7_Witness ==
  /\ _selected >= 0 /\ last.op = "setIndex" /\ last.arg = 2 /\ last.ret
  /\ Passing = {1} /\ getIndex = 1

\* C8: isFiltered() is false for every record whenever no filter is enabled
\* or the observer state is uninitialized (latitude >= 9999 or LST reference
\* 0), whatever filter bits and parameters are set; incIndex()/decIndex()
\* then move the cursor by exactly one position and return true.
C8_UninitializedNeverFilters ==
  (_selected >= 0 /\ (_fm = FM_NONE \/ _lat >= 9999 \/ _lstT0 = 0)) =>
    /\ \A k \in Indices : ~FilteredAt(k)
    /\ isFiltered = FALSE
    /\ last.op \in {"incIndex", "decIndex"} => (last.moves = 1 /\ last.ret = TRUE)

\* C8 witness: incIndex() with criteria enabled that would exclude the record
\* reached, the latitude set and the LST reference still 0
C8_Witness ==
  /\ _selected >= 0 /\ last.op = "incIndex" /\ last.moves = 1 /\ last.ret
  /\ _lat < 9999 /\ _lstT0 = 0
  /\ "FM_BY_MAG" \in _fm /\ magnitude >= _fm_mag_limit

(***************************************************************************)
(* SpecNames: name and sub-id lookup, over the example catalog and a       *)
(* catalog with every pattern of name and sub-id flags.                    *)
(***************************************************************************)
Flags == [ 1 .. NameRecs -> {0, 1} ]

\* the observer stays unset here, so no record is read while navigating
InitNames == \E hn \in Flags, hs \in Flags : InitWith(RegistryNames(hn, hs), { JunkPass })

NextNames ==
  \/ \E n \in SelectArgs : select(n)
  \/ \E i \in NearArgs : setIndex(i)
  \/ CursorInRange /\ incIndex
  \/ CursorInRange /\ decIndex

SpecNames == InitNames /\ [][NextNames]_vars

\* the criteria that do not apply to a catalog of type t
Inapplicable(t) ==
  (IF t \notin DsoTypes THEN {"FM_OBJ_TYPE"} ELSE {})
  \cup (IF t \notin DblTypes THEN {"FM_DBL_MIN_SEP", "FM_DBL_MAX_SEP"} ELSE {})
  \cup (IF t # "CAT_VAR_STAR" THEN {"FM_VAR_MAX_PER"} ELSE {})

\* C9: a criterion that does not apply to the active catalog type never
\* excludes a record: with FM_OBJ_TYPE in a non-deep-sky catalog,
\* FM_DBL_MIN_SEP or FM_DBL_MAX_SEP in a non-double-star catalog, or
\* FM_VAR_MAX_PER in a non-variable-star catalog, enabled by filterAdd with
\* any parameter, isFiltered() is for every record what it is without it.
C9_InapplicableSkipped ==
  _selected >= 0 =>
    \A k \in Inapplicable(catalogType), param \in 0 .. MaxParam, i \in Indices :
      LET r == RecAt(i)
          with == FilteredWith(r, _fm \cup {k}, ParamsAdd(Params, {k}, param))
      IN  /\ with = FilteredWith(r, _fm \ {k}, Params)
          /\ FilteredRec(r) = FilteredWith(r, _fm \ {k}, Params)

\* C9 witness: FM_DBL_MAX_SEP has just been added in a catalog that is not a
\* double-star catalog, observer initialized, beside a criterion that does
\* exclude one of its records
C9_Witness ==
  /\ _selected >= 0 /\ catalogType \notin DblTypes /\ isInitialized
  /\ last.op = "filterAdd" /\ _fm = {"FM_DBL_MAX_SEP", "FM_ALIGN_ALL_SKY"}
  /\ \E i \in Indices : i \in Passing
  /\ \E i \in Indices : i \notin Passing

\* element k (0-based) of a semicolon-delimited table: the characters between
\* its k-th and (k+1)-th semicolon
Semicolons(data) == { i \in 1 .. Len(data) : data[i] = ";" }
NthSemicolon(data, n) ==
  CHOOSE i \in Semicolons(data) : Cardinality({ j \in Semicolons(data) : j < i }) = n - 1
ElementAt(data, k) ==
  LET from == IF k = 0 THEN 1 ELSE NthSemicolon(data, k) + 1
      to   == IF k >= Cardinality(Semicolons(data)) THEN Len(data)
              ELSE NthSemicolon(data, k + 1) - 1
  IN  SubSeq(data, from, to)

\* the number of records 0..getIndex of the active catalog whose flag is set
FlaggedUpToCursor(flag) ==
  Cardinality({ i \in 0 .. getIndex : RecAt(i)[flag] = 1 })

C11_NotApplicableSentinels ==
  _selected >= 0 =>
    \A k \in Indices :
      LET t == catalogType
          r == RecAt(k)
      IN  /\ t \notin DblTypes =>
                (positionAngleOf(t, r) = -1 /\ separationOf(t, r) = 9999)
          /\ t # "CAT_VAR_STAR" => periodOf(t, r) = -100
          /\ t \notin (DblTypes \cup {"CAT_VAR_STAR"}) => magnitude2Of(t, r) = 9990
          /\ t \in DsoTypes => bayerFlamOf(t, r) = -1
          /\ t = "CAT_VAR_STAR" => objectTypeOf(t, r) = -1

(***************************************************************************)
(* SpecRegistry: selection over registries whose first empty entry is not  *)
(* the last one, or is the only one.                                       *)
(***************************************************************************)
Registries == { RegistryNav, RegistryGap, RegistryEmpty }

InitRegistry == \E registry \in Registries : InitWith(registry, { JunkPass })

NextRegistry ==
  \/ \E n \in SelectArgs : select(n)
  \/ \E i \in NearArgs : setIndex(i)
  \/ CursorInRange /\ incIndex
  \/ CursorInRange /\ decIndex
  \/ \E lat \in Lats : setLat(lat)
  \/ \E l \in LstT0s : setLstT0(l)

SpecRegistry == InitRegistry /\ [][NextRegistry]_vars

\* C13: numCatalogs() is the index of the first registry entry with record
\* count 0; after any select(n) a selected catalog has record_count > 0: an
\* empty catalog (the sentinel included) is never the active one, and
\* getMaxIndex() = record_count - 1 >= 0 for the active catalog.
C13_SelectedNonEmpty ==
  /\ catalog[numCatalogs].NumObjects = 0
  /\ \A i \in 0 .. (numCatalogs - 1) : catalog[i].NumObjects > 0
  /\ last.op = "select" => (_selected = -1 \/ _selected = last.arg)
  /\ _selected >= 0 =>
       /\ _selected < numCatalogs
       /\ catalog[_selected].NumObjects > 0
       /\ catalogType # "CAT_NONE"
       /\ getMaxIndex = catalog[_selected].NumObjects - 1
       /\ getMaxIndex >= 0

\* C13 witness: select() was called with the number of an empty catalog that
\* is not the sentinel, and with the number of a non-empty catalog behind
\* it; nothing is selected
C13_Witness ==
  /\ last.op = "select" /\ last.arg > numCatalogs /\ last.arg < NumEntries
  /\ catalog[numCatalogs].CatalogType \in CatTypes
  /\ catalog[last.arg].NumObjects > 0
  /\ _selected = -1

\* C16: during setIndex(i), incIndex() and decIndex() every evaluation of the
\* filter predicate that reads a record (observer initialized, a filter
\* enabled) happens with the cursor inside [0, record_count-1], for any long
\* i, i > record_count included: navigation decodes no record outside the
\* catalog array.
C16_NoWildRead ==
  (_selected >= 0 /\ last.op \in NavOps) => ~last.wild

(***************************************************************************)
(* SpecLost: one catalog, and incIndex()/decIndex() also from a cursor     *)
(* that setIndex() has left outside the array.                             *)
(***************************************************************************)
RegistryOne ==
  Arr(<< Entry("Stars", "Star ", << "Cat_Stars" >>, "Names_AB", "SubIds", "CAT_GEN_STAR_VCOMP", 2000),
         Sentinel >>)

CursorNearLimit ==
  /\ _selected >= 0
  /\ (getIndex <= LONG_MIN + MaxDrift \/ getIndex >= LONG_MAX - MaxDrift)

InitLost == InitWith(RegistryOne, JunkRecs)

NextLost ==
  \/ \E n \in SelectArgs : select(n)
  \/ \E i \in SetIndexArgs : setIndex(i)
  \/ (CursorInRange \/ CursorNearLimit) /\ incIndex
  \/ (CursorInRange \/ CursorNearLimit) /\ decIndex
  \/ \E lat \in Lats : setLat(lat)
  \/ \E l \in LstT0s : setLstT0(l)
  \/ filtersClear
  \/ \E a \in NavFilterArgs : filterAdd(a[1], a[2])

SpecLost == InitLost /\ [][NextLost]_vars

\* C15: when every record of the active catalog is filtered out, incIndex()
\* and decIndex() return false, and calling the same operation again (filter
\* and observer unchanged) returns false and leaves the cursor where the
\* first call left it.
C15_StableWhenAllFiltered ==
  [][ ( /\ _selected >= 0 /\ isInitialized /\ _fm # FM_NONE /\ Passing = {}
        /\ last'.op \in {"incIndex", "decIndex"} )
      => /\ last'.ret = FALSE
         /\ last.op = last'.op => getIndex' = getIndex
    ]_vars

(***************************************************************************)
(* SpecObserved: topocentricToObservedPlace() on every place of RAArgs x   *)
(* DecArgs, under every observer state of Lats x LstT0s.                   *)
(***************************************************************************)
InitObserved ==
  /\ InitMgr(RegistryOne, { JunkPass })
  /\ RA \in RAArgs /\ Dec \in DecArgs
  /\ Alt = Deg(0) /\ Azm = Deg(0)

NextObserved ==
  \/ \E lat \in Lats : setLat(lat)
  \/ \E l \in LstT0s : setLstT0(l)
  \/ topocentricToObservedPlace

SpecObserved == InitObserved /\ [][NextObserved]_vars

\* C12: a topocentricToObservedPlace() call made while the observer state is
\* not initialized (latitude >= 9999 or LST reference = 0) leaves *RA and
\* *Dec as they were; the call writes them only when the state is initialized
C12_UninitializedLeavesPlace ==
  [][ (last'.op = "topocentricToObservedPlace" /\ ~isInitialized)
      => (RA' = RA /\ Dec' = Dec) ]_vars

\* the call was made with the latitude set and the LST reference still 0
C12_Witness ==
  /\ last.op = "topocentricToObservedPlace"
  /\ _lat < 9999 /\ _lstT0 = 0
  /\ RA \in RAArgs /\ Dec \in DecArgs

(***************************************************************************)
(* SpecCoords: EquToHor() on every place of RAArgs x DecArgs and           *)
(* HorToEqu() on the caller's Alt/Azm, under every observer state of       *)
(* CoordLats x LstT0s.                                                     *)
(***************************************************************************)
CoordLats == {-45, 0, 45, 9999}

InitCoords == InitWith(RegistryOne, { JunkPass })

NextCoords ==
  \/ \E lat \in CoordLats : setLat(lat)
  \/ \E l \in LstT0s : setLstT0(l)
  \/ \E r \in RAArgs, d \in DecArgs : EquToHor(r, d)
  \/ last.op = "EquToHor" /\ HorToEqu

SpecCoords == InitCoords /\ [][NextCoords]_vars

BetweenPoles == _lat > -90 /\ _lat < 90
AtSingularity(a) == cos(a) = Zero

\* C14 as stated: with the latitude strictly between the poles and Alt/Azm
\* the output of EquToHor(RA, Dec) under the same observer state, with Alt
\* away from the zenith and the nadir, HorToEqu(Alt, Azm) writes the
\* original RA (modulo 360 degrees) and Dec
C14_Original ==
  [][ ( /\ last.op = "EquToHor" /\ last'.op = "HorToEqu"
        /\ BetweenPoles /\ ~AtSingularity(Alt) )
      => (RA' = last.arg.RA /\ Dec' = last.arg.Dec) ]_vars

\* C14 amended: with the latitude strictly between the poles and Alt/Azm
\* the output of EquToHor(RA, Dec) under the same observer state, with Alt
\* away from the zenith and the nadir and Dec away from the celestial
\* poles, HorToEqu(Alt, Azm) writes the original RA (modulo 360 degrees)
\* and Dec
C14_RoundTrip ==
  [][ ( /\ last.op = "EquToHor" /\ last'.op = "HorToEqu"
        /\ BetweenPoles /\ ~AtSingularity(Alt) /\ ~AtSingularity(last.arg.Dec) )
      => (RA' = last.arg.RA /\ Dec' = last.arg.Dec) ]_vars

\* a round trip completed away from every axis: neither RA nor Dec is a
\* multiple of 90 degrees, and the place is one EquToHor maps to Alt/Azm
C14_Witness ==
  /\ last.op = "HorToEqu" /\ BetweenPoles
  /\ RA \in RAArgs /\ Dec \in DecArgs
  /\ Horizon(Alt, Azm) = EquToHorAt(RA, Dec)
  /\ ~AtSingularity(Alt) /\ ~AtSingularity(Dec)
  /\ sin(Dec) # Zero /\ sin(RA) # Zero /\ cos(RA) # Zero

====
